---- MODULE Spec2Model ----
(***************************************************************************)
(* Model of Labfiles/01-analyze-text/Python/text-analysis/text-analysis.py *)
(* main(): set-up, folder listing, and the per-file loop of one read and   *)
(* five blocking calls to the text-analysis client, all inside one         *)
(* try/except that prints the exception.                                   *)
(*                                                                         *)
(* The environment (configuration, the folder, the files' contents and the *)
(* remote service) is the program's input.  The folder and configuration   *)
(* are fixed in Init; a file's content is fixed when it is first read; the *)
(* service answers each call with any response or a failure.               *)
(***************************************************************************)
EXTENDS Naturals, Sequences, FiniteSets, TLC

\* ---------------------------------------------------------------- bounds
\* Largest number of files os.listdir returns.
MaxFiles == 2
\* Length of a non-empty item list (key phrases, entities, linked entities)
\* in a service response.
MaxItems == 2

\* ------------------------------------------------------- the environment
AllNames == <<"a.txt", "b.txt", "c.txt", "d.txt">>
Names == {AllNames[i] : i \in 1..MaxFiles}

\* What os.listdir('reviews') can return: the names of the folder, each
\* once, in any order.
RECURSIVE Orderings(_)
Orderings(S) ==
    IF S = {} THEN {<< >>}
    ELSE UNION {{<<n>> \o t : t \in Orderings(S \ {n})} : n \in S}

Listings == UNION {Orderings(S) : S \in SUBSET Names}

\* The text of each file; two of the files hold the same review.
AllTexts == <<"t1", "t2", "t1", "t2">>
Content(name) == AllTexts[CHOOSE i \in DOMAIN AllNames : AllNames[i] = name]

\* Outcome of an operation of the environment: a value, or an exception.
Ok(v) == [ok |-> TRUE, val |-> v]
Err(e) == [ok |-> FALSE, val |-> e]

\* open(...).read(): the text, or an I/O or decoding error.
ReadOutcomes(name) == {Ok(Content(name)), Err("OSError")}

Ops == {"detect_language", "analyze_sentiment", "extract_key_phrases",
        "recognize_entities", "recognize_linked_entities"}

DetectResults ==
    {[name |-> "English", iso6391_name |-> "en"],
     [name |-> "French", iso6391_name |-> "fr"]}

\* Confidence scores in thousandths.
SentimentResults ==
    {[sentiment |-> "positive", positive |-> 876, negative |-> 23, neutral |-> 101]}

AllPhrases == <<"p1", "p2", "p3", "p4">>
AllEntities == <<[text |-> "e1", category |-> "Person"],
                 [text |-> "e2", category |-> "Location"],
                 [text |-> "e3", category |-> "Organization"],
                 [text |-> "e4", category |-> "Person"]>>
AllLinked == <<[name |-> "n1", url |-> "u1"],
               [name |-> "n2", url |-> "u2"],
               [name |-> "n3", url |-> "u3"],
               [name |-> "n4", url |-> "u4"]>>

\* A response's item list is empty or holds MaxItems items.
ItemLens == {0, MaxItems}

Results(op) ==
    CASE op = "detect_language" -> DetectResults
      [] op = "analyze_sentiment" -> SentimentResults
      [] op = "extract_key_phrases" -> {SubSeq(AllPhrases, 1, n) : n \in ItemLens}
      [] op = "recognize_entities" -> {SubSeq(AllEntities, 1, n) : n \in ItemLens}
      [] op = "recognize_linked_entities" -> {SubSeq(AllLinked, 1, n) : n \in ItemLens}

\* What a call can come back with: a document result, or an exception
\* (raised by the client, or by taking [0] or an attribute of what it
\* returned).
CallOutcomes(op) == {Ok(r) : r \in Results(op)} \cup {Err("HttpResponseError")}

\* ------------------------------------------------------------- the state
VARIABLES
    config_ok,          \* environment: set-up (lines 37-51) succeeds
    folder,             \* environment: what os.listdir returns, or missing
    files,              \* environment: file name -> outcome of reading it
    stub,               \* environment: request -> outcome (stubbed service)
    pc,                 \* position of main()
    iter,               \* the for loop's iterator: names still to come
    file_name,          \* loop variable
    text,               \* local
    detected_language,  \* local
    pending,            \* the call in flight, <<>> when none
    exc,                \* the exception caught by the handler
    out,                \* standard output, a sequence of lines
    calls,              \* log of the calls made to the client
    pass,               \* number of loop iterations started
    run,                \* which execution of the script this is
    prev_out            \* standard output of the previous execution

vars == <<config_ok, folder, files, stub, pc, iter, file_name, text,
          detected_language, pending, exc, out, calls, pass, run, prev_out>>

env == <<config_ok, folder>>

Missing == Err("FileNotFoundError")
NoExc == "NoExc"
Unbound == [name |-> "", iso6391_name |-> ""]

\* --------------------------------------------------------------- output
\* A printed line: what it is, its strings, and the loop iteration that
\* printed it (0 outside the loop).
Line(kind, val) == [kind |-> kind, val |-> val]

Emit(p, lines) ==
    out' = out \o [i \in 1..Len(lines) |->
                     [kind |-> lines[i].kind, val |-> lines[i].val, pass |-> p]]

Digit == <<"0", "1", "2", "3", "4", "5", "6", "7", "8", "9">>

\* f'{x:.2f}' of x in [0, 1], x given in thousandths (no sampled score
\* ends in 5, so no tie is rounded).
Fmt2(x) ==
    LET h == (x + 5) \div 10
    IN Digit[(h \div 100) + 1] \o "." \o Digit[((h \div 10) % 10) + 1]
         \o Digit[(h % 10) + 1]

\* line 58
HeaderLinesNone(name) == << >>
HeaderLinesStamped(name) == <<Line("header", <<name, Digit[run + 1]>>)>>
HeaderLines(name) == <<Line("header", <<name>>)>>

\* line 63
TextLines(t) == <<Line("text", <<t>>)>>

\* line 68
LanguageLines(r) == <<Line("language", <<r.name>>)>>

\* lines 73-75
SentimentLinesScoresFirst(r) ==
    <<Line("scores", <<Fmt2(r.positive), Fmt2(r.negative), Fmt2(r.neutral)>>),
      Line("sentiment", <<r.sentiment>>)>>
SentimentLines(r) ==
    <<Line("sentiment", <<r.sentiment>>),
      Line("scores", <<Fmt2(r.positive), Fmt2(r.negative), Fmt2(r.neutral)>>)>>

\* lines 80-83
KeyPhraseLinesAlways(r) ==
    <<Line("Key Phrases:", << >>)>>
      \o [i \in 1..Len(r) |-> Line("phrase", <<r[i]>>)]
KeyPhraseLines(r) ==
    IF r # << >>
    THEN <<Line("Key Phrases:", << >>)>>
           \o [i \in 1..Len(r) |-> Line("phrase", <<r[i]>>)]
    ELSE << >>

\* lines 88-92
EntityLines(r) ==
    IF r # << >>
    THEN <<Line("Entities:", << >>)>>
           \o [i \in 1..Len(r) |-> Line("entity", <<r[i].text, r[i].category>>)]
    ELSE << >>

\* lines 97-101
LinkedEntityLines(r) ==
    IF r # << >>
    THEN <<Line("Linked Entities:", << >>)>>
           \o [i \in 1..Len(r) |-> Line("linked", <<r[i].name, r[i].url>>)]
    ELSE << >>

\* line 107
ExceptLines(e) == <<Line("error", <<e>>)>>

\* What is printed once a call has returned r.
ResultLines(op, r) ==
    CASE op = "detect_language" -> LanguageLines(r)
      [] op = "analyze_sentiment" -> SentimentLines(r)
      [] op = "extract_key_phrases" -> KeyPhraseLines(r)
      [] op = "recognize_entities" -> EntityLines(r)
      [] op = "recognize_linked_entities" -> LinkedEntityLines(r)

\* ---------------------------------------------------------- control flow
\* The statement after a call's statement; after the last one the loop
\* takes its next file.
NextStepSwapped(op) ==
    CASE op = "detect_language" -> "extract_key_phrases"
      [] op = "extract_key_phrases" -> "analyze_sentiment"
      [] op = "analyze_sentiment" -> "recognize_entities"
      [] op = "recognize_entities" -> "recognize_linked_entities"
      [] op = "recognize_linked_entities" -> "for"
NextStep(op) ==
    CASE op = "detect_language" -> "analyze_sentiment"
      [] op = "analyze_sentiment" -> "extract_key_phrases"
      [] op = "extract_key_phrases" -> "recognize_entities"
      [] op = "recognize_entities" -> "recognize_linked_entities"
      [] op = "recognize_linked_entities" -> "for"

\* try ... except Exception: every exception raised in the body lands in
\* the handler.
CatchHttpOnly(e) == IF e = "HttpResponseError" THEN "except" ELSE "uncaught"
Catch(e) == "except"

\* Where control goes when the call of op raises e: out of the statement.
CallFailedRetry(op, e) == op
CallFailed(op, e) == Catch(e)

\* Where control goes after the handler: main() returns.
AfterExceptContinue == "for"
AfterExcept == "done"

\* The file the for loop takes next: the first of those still to come.
PickAny(it) == 1..Len(it)
Pick(it) == {1}

\* The language a pass works with once detection has returned r.
BindLanguageOnce(old, r) == IF old = Unbound THEN r ELSE old
BindLanguage(old, r) == r

\* documents=[text]
Documents(t) == <<t>>

\* The request of the call at statement op.
Request(op) ==
    [op |-> op,
     documents |-> Documents(text),
     language |-> IF op = "detect_language" THEN "none"
                  ELSE detected_language.iso6391_name]

NoResponse == Err("pending")

\* ---------------------------------------------------------------- Init
Init ==
    /\ config_ok \in BOOLEAN
    /\ folder \in {Ok(l) : l \in Listings} \cup {Missing}
    /\ files = << >>
    /\ stub = << >>
    /\ pc = "setup"
    /\ iter = << >>
    /\ file_name = ""
    /\ text = ""
    /\ detected_language = Unbound
    /\ pending = << >>
    /\ exc = NoExc
    /\ out = << >>
    /\ calls = << >>
    /\ pass = 0
    /\ run = 1
    /\ prev_out = << >>

\* -------------------------------------------------------------- actions
\* lines 37-51: configuration, credential, client.
Setup ==
    /\ pc = "setup"
    /\ IF config_ok
       THEN pc' = "listdir" /\ exc' = exc
       ELSE pc' = Catch("ValueError") /\ exc' = "ValueError"
    /\ UNCHANGED <<env, files, stub, iter, file_name, text, detected_language,
                   pending, out, calls, pass, run, prev_out>>

\* line 56: os.listdir(reviews_folder)
ListDir ==
    /\ pc = "listdir"
    /\ IF folder.ok
       THEN pc' = "for" /\ iter' = folder.val /\ exc' = exc
       ELSE pc' = Catch(folder.val) /\ exc' = folder.val /\ iter' = iter
    /\ UNCHANGED <<env, files, stub, file_name, text, detected_language,
                   pending, out, calls, pass, run, prev_out>>

\* lines 56-58: the loop takes its next file and prints the header.
ForNext ==
    /\ pc = "for"
    /\ iter # << >>
    /\ \E i \in Pick(iter) :
         /\ file_name' = iter[i]
         /\ iter' = SubSeq(iter, 1, i - 1) \o SubSeq(iter, i + 1, Len(iter))
         /\ Emit(pass + 1, HeaderLines(iter[i]))
    /\ pass' = pass + 1
    /\ pc' = "read"
    /\ UNCHANGED <<env, files, stub, text, detected_language, pending, exc,
                   calls, run, prev_out>>

\* line 56: the listing is exhausted; main() returns.
ForEnd ==
    /\ pc = "for"
    /\ iter = << >>
    /\ pc' = "done"
    /\ UNCHANGED <<env, files, stub, iter, file_name, text, detected_language,
                   pending, exc, out, calls, pass, run, prev_out>>

\* lines 62-63: read the file and print its text.
Read ==
    /\ pc = "read"
    /\ \E o \in (IF file_name \in DOMAIN files THEN {files[file_name]}
                 ELSE ReadOutcomes(file_name)) :
         /\ files' = (file_name :> o) @@ files
         /\ IF o.ok
            THEN /\ text' = o.val
                 /\ Emit(pass, TextLines(o.val))
                 /\ pc' = "detect_language"
                 /\ exc' = exc
            ELSE /\ pc' = Catch(o.val)
                 /\ exc' = o.val
                 /\ UNCHANGED <<text, out>>
    /\ UNCHANGED <<env, stub, iter, file_name, detected_language, pending,
                   calls, pass, run, prev_out>>

\* lines 67, 72, 79, 87, 96: the request leaves; the caller blocks.
Call ==
    /\ pc \in Ops
    /\ pending = << >>
    /\ pending' = <<Request(pc)>>
    /\ calls' = Append(calls, [pass |-> pass, file |-> file_name,
                               req |-> Request(pc), status |-> "pending",
                               resp |-> NoResponse])
    /\ UNCHANGED <<env, files, stub, pc, iter, file_name, text,
                   detected_language, exc, out, pass, run, prev_out>>

\* The call at statement pc comes back with outcome o: the rest of the
\* statement and the prints that follow it.
Complete(o) ==
    /\ pending' = << >>
    /\ calls' = [calls EXCEPT ![Len(calls)] =
                   [@ EXCEPT !.status = IF o.ok THEN "ok" ELSE "failed",
                             !.resp = o]]
    /\ IF o.ok
       THEN /\ Emit(pass, ResultLines(pc, o.val))
            /\ detected_language' =
                 IF pc = "detect_language"
                 THEN BindLanguage(detected_language, o.val)
                 ELSE detected_language
            /\ pc' = NextStep(pc)
            /\ exc' = exc
       ELSE /\ pc' = CallFailed(pc, o.val)
            /\ exc' = o.val
            /\ UNCHANGED <<out, detected_language>>
    /\ UNCHANGED <<env, files, iter, file_name, text, pass, run, prev_out>>

\* The service answers as it pleases.
Return ==
    /\ pc \in Ops
    /\ pending # << >>
    /\ \E o \in CallOutcomes(pc) : Complete(o)
    /\ UNCHANGED stub

\* The service is a stub: the same request gets the same outcome.
StubReturn ==
    /\ pc \in Ops
    /\ pending # << >>
    /\ \E o \in (IF pending[1] \in DOMAIN stub THEN {stub[pending[1]]}
                 ELSE CallOutcomes(pc)) :
         /\ Complete(o)
         /\ stub' = (pending[1] :> o) @@ stub

\* lines 105-107: the handler prints the exception.
Except ==
    /\ pc = "except"
    /\ Emit(pass, ExceptLines(exc))
    /\ pc' = AfterExcept
    /\ UNCHANGED <<env, files, stub, iter, file_name, text, detected_language,
                   pending, exc, calls, pass, run, prev_out>>

\* The script is run again on the same folder with the same stub.
Rerun ==
    /\ pc = "done"
    /\ run = 1
    /\ run' = 2
    /\ prev_out' = out
    /\ pc' = "setup"
    /\ iter' = << >>
    /\ file_name' = ""
    /\ text' = ""
    /\ detected_language' = Unbound
    /\ pending' = << >>
    /\ exc' = NoExc
    /\ out' = << >>
    /\ calls' = << >>
    /\ pass' = 0
    /\ UNCHANGED <<env, files, stub>>

Next == Setup \/ ListDir \/ ForNext \/ ForEnd \/ Read \/ Call \/ Return \/ Except

Spec == Init /\ [][Next]_vars

\* Every step the script can take is eventually taken.
FairSpec == Spec /\ WF_vars(Next)

NextTwice ==
    Setup \/ ListDir \/ ForNext \/ ForEnd \/ Read \/ Call \/ StubReturn
      \/ Except \/ Rerun

SpecTwice == Init /\ [][NextTwice]_vars

\* ------------------------------------------------ reading the history
OpOrder == <<"detect_language", "analyze_sentiment", "extract_key_phrases",
             "recognize_entities", "recognize_linked_entities">>

\* The calls made during loop iteration k.
PassCalls(k) == SelectSeq(calls, LAMBDA c : c.pass = k)

\* The lines printed during loop iteration k.
PassLines(k) == SelectSeq(out, LAMBDA l : l.pass = k)

\* The lines of one kind printed during loop iteration k.
KindLines(k, kind) == SelectSeq(out, LAMBDA l : l.pass = k /\ l.kind = kind)

\* Iteration k ran to the end of the loop body.
Completed(k) ==
    \E i \in 1..Len(calls) :
        /\ calls[i].pass = k
        /\ calls[i].req.op = "recognize_linked_entities"
        /\ calls[i].status = "ok"

Count(seq, Test(_)) == Cardinality({i \in 1..Len(seq) : Test(seq[i])})

Failed == exc # NoExc

\* ------------------------------------------------------------------ C1
\* C1: the header of every file whose pass completed is in the output
\* exactly once, and the headers are in the output in the order in which
\* the folder listing enumerated the files.
C1_HeaderOncePerFileInOrder ==
    folder.ok =>
      LET H == SelectSeq(out, LAMBDA l : l.kind = "header")
      IN /\ \A k \in 1..pass :
              Completed(k) =>
                Count(H, LAMBDA l : l.val = <<folder.val[k]>>) = 1
         /\ pass <= Len(folder.val)
         /\ Len(H) = pass
         /\ \A k \in 1..pass : H[k].val = <<folder.val[k]>>

C1_Witness ==
    /\ pc = "done"
    /\ ~Failed
    /\ pass = 2
    /\ folder.val = <<"b.txt", "a.txt">>

\* ------------------------------------------------------------------ C2
\* C2: once anything has failed, nothing is printed for the files that
\* come after the failing one, the run prints exactly one error message,
\* and that message is the last line of the output.
C2_HaltOnFailure ==
    LET errors == Count(out, LAMBDA l : l.kind = "error")
    IN /\ errors <= 1
       /\ errors = 1 => (out[Len(out)].kind = "error" /\ pc = "done" /\ Failed)
       /\ (Failed /\ pc = "done") => errors = 1
       /\ (Failed /\ folder.ok) =>
            \A j \in (pass + 1)..Len(folder.val) :
                \A i \in 1..Len(out) :
                    ~(\E n \in 1..Len(out[i].val) : out[i].val[n] = folder.val[j])
       /\ ~Failed => errors = 0

C2_Witness ==
    /\ pc = "done"
    /\ exc = "HttpResponseError"
    /\ pass = 1
    /\ Len(folder.val) = 2
    /\ calls[Len(calls)].req.op = "recognize_entities"
    /\ out[Len(out)].kind = "error"

\* ------------------------------------------------------------------ C3
\* C3: each of the five operations is called at most once for a file, and
\* a call that failed is the last call of the run.
C3_NoRetry ==
    /\ \A i \in 1..Len(calls) : \A j \in (i + 1)..Len(calls) :
         calls[i].file # calls[j].file \/ calls[i].req.op # calls[j].req.op
    /\ \A i \in 1..Len(calls) : calls[i].status = "failed" => i = Len(calls)
    /\ Failed => pending = << >>

C3_Witness ==
    /\ pc = "done"
    /\ pass = 2
    /\ Len(calls) = 7
    /\ calls[7].status = "failed"

\* ------------------------------------------------------------------ C4
\* C4: a completed pass made exactly the five calls, in the fixed order,
\* each with the one document that is the file's text; at most one call is
\* in flight, and it is the last one issued.
C4_FiveSequentialCalls ==
    /\ \A k \in 1..pass :
         Completed(k) =>
           LET P == PassCalls(k)
           IN /\ Len(P) = 5
              /\ \A i \in 1..5 :
                   /\ P[i].req.op = OpOrder[i]
                   /\ Len(P[i].req.documents) = 1
                   /\ P[i].file \in DOMAIN files
                   /\ files[P[i].file].ok
                   /\ P[i].req.documents[1] = files[P[i].file].val
                   /\ P[i].status = "ok"
    /\ \A i \in 1..Len(calls) : calls[i].status = "pending" => i = Len(calls)
    /\ (pending # << >>) <=>
         (calls # << >> /\ calls[Len(calls)].status = "pending")
    /\ \A i \in 1..(Len(calls) - 1) : calls[i].pass <= calls[i + 1].pass

C4_Witness ==
    /\ pass = 2
    /\ Completed(1)
    /\ Len(calls) = 8
    /\ pending # << >>
    /\ calls[6].req.documents # calls[1].req.documents

\* ------------------------------------------------------------------ C5
\* C5: the language hint of every sentiment, key-phrase, entity and
\* linked-entity call is the ISO code that the language detection of the
\* same pass returned.
C5_HintFromSamePass ==
    \A i \in 1..Len(calls) :
        calls[i].req.op # "detect_language" =>
          \E j \in 1..(i - 1) :
              /\ calls[j].pass = calls[i].pass
              /\ calls[j].req.op = "detect_language"
              /\ calls[j].status = "ok"
              /\ calls[i].req.language = calls[j].resp.val.iso6391_name

C5_Witness ==
    /\ pass = 2
    /\ Len(calls) >= 7
    /\ calls[1].resp.val.iso6391_name = "en"
    /\ calls[6].status = "ok"
    /\ calls[6].resp.val.iso6391_name = "fr"
    /\ calls[7].req.language = "fr"

\* ------------------------------------------------------------------ C6
SectionOps == {"extract_key_phrases", "recognize_entities",
               "recognize_linked_entities"}

SectionHeader(op) ==
    CASE op = "extract_key_phrases" -> "Key Phrases:"
      [] op = "recognize_entities" -> "Entities:"
      [] op = "recognize_linked_entities" -> "Linked Entities:"

ItemKind(op) ==
    CASE op = "extract_key_phrases" -> "phrase"
      [] op = "recognize_entities" -> "entity"
      [] op = "recognize_linked_entities" -> "linked"

ItemStrings(op, x) ==
    CASE op = "extract_key_phrases" -> <<x>>
      [] op = "recognize_entities" -> <<x.text, x.category>>
      [] op = "recognize_linked_entities" -> <<x.name, x.url>>

\* The items the call of op returned, P being the calls of a pass; none
\* if it did not return.
ReturnedIn(P, op) ==
    LET R == SelectSeq(P, LAMBDA c : c.req.op = op /\ c.status = "ok")
    IN IF R = << >> THEN << >> ELSE R[1].resp.val

Returned(k, op) == ReturnedIn(PassCalls(k), op)

\* C6: a section's header is printed for a file iff the service returned a
\* non-empty list for it, and then the section has one line per returned
\* item, in the order returned.
C6_SectionsIffNonEmpty ==
    \A k \in 1..pass :
        LET P == PassCalls(k)
            L == PassLines(k)
        IN \A op \in SectionOps :
             LET r == ReturnedIn(P, op)
                 heads == SelectSeq(L, LAMBDA l : l.kind = SectionHeader(op))
                 items == SelectSeq(L, LAMBDA l : l.kind = ItemKind(op))
             IN /\ Len(heads) = (IF r # << >> THEN 1 ELSE 0)
                /\ Len(items) = Len(r)
                /\ \A i \in 1..Len(r) : items[i].val = ItemStrings(op, r[i])

C6_Witness ==
    /\ pass = 1
    /\ Completed(1)
    /\ Returned(1, "extract_key_phrases") = << >>
    /\ Len(Returned(1, "recognize_entities")) = MaxItems
    /\ Len(Returned(1, "recognize_linked_entities")) = MaxItems
    /\ Len(KindLines(1, "Key Phrases:")) = 0
    /\ Len(KindLines(1, "Entities:")) = 1

\* ------------------------------------------------------------------ C7
Rank(kind) ==
    CASE kind = "header" -> 1
      [] kind = "text" -> 2
      [] kind = "language" -> 3
      [] kind = "sentiment" -> 4
      [] kind = "scores" -> 5
      [] kind = "Key Phrases:" -> 6
      [] kind = "phrase" -> 7
      [] kind = "Entities:" -> 8
      [] kind = "entity" -> 9
      [] kind = "Linked Entities:" -> 10
      [] kind = "linked" -> 11
      [] kind = "error" -> 12

\* C7: the output of a completed pass starts with header, text, language,
\* sentiment and scores, one line each, and continues with the sections in
\* the order key phrases, entities, linked entities; the passes' outputs
\* follow one another without interleaving.
C7_FixedOrderOfParts ==
    /\ \A k \in 1..pass :
         Completed(k) =>
           LET L == PassLines(k)
           IN /\ Len(L) >= 5
              /\ \A i \in 1..5 : Rank(L[i].kind) = i
              /\ \A i \in 6..Len(L) : Rank(L[i].kind) \in 6..11
              /\ \A i \in 1..(Len(L) - 1) :
                   Rank(L[i].kind) <= Rank(L[i + 1].kind)
    /\ \A i \in 1..(Len(out) - 1) : out[i].pass <= out[i + 1].pass

C7_Witness ==
    /\ pc = "done"
    /\ ~Failed
    /\ pass = 2
    /\ Len(PassLines(1)) = 5 + 3 * (MaxItems + 1)
    /\ Len(PassLines(2)) = 5 + (MaxItems + 1)

C9_Terminates == <>(pc = "done")

C9_Witness ==
    /\ pc = "done"
    /\ exc = "OSError"
    /\ pass = 2

\* ----------------------------------------------------------------- C10
\* What the pass of the k-th enumerated file has printed, given what its
\* read and its calls came back with: the header, the text if the read
\* succeeded, and the results of the calls that returned.
RECURSIVE Flatten(_)
Flatten(ss) == IF ss = << >> THEN << >> ELSE Head(ss) \o Flatten(Tail(ss))

PartialOutput(k) ==
    LET f == folder.val[k]
        P == PassCalls(k)
        body ==
          <<Line("header", <<f>>)>>
            \o (IF f \in DOMAIN files /\ files[f].ok
                THEN <<Line("text", <<files[f].val>>)>> ELSE << >>)
            \o Flatten([i \in 1..Len(P) |->
                          IF P[i].status = "ok"
                          THEN ResultLines(P[i].req.op, P[i].resp.val)
                          ELSE << >>])
    IN [i \in 1..Len(body) |->
          [kind |-> body[i].kind, val |-> body[i].val, pass |-> k]]

\* C10: when a run has failed, its output is the complete output of the
\* files before the failing one, then the header of the failing file and
\* the results of its steps that completed, then the error message.
C10_PartialOutputKept ==
    (pc = "done" /\ Failed /\ folder.ok) =>
      /\ \A k \in 1..(pass - 1) : Completed(k)
      /\ (pass >= 1 /\ exc = "OSError") => PassCalls(pass) = << >>
      /\ out = Flatten([k \in 1..pass |-> PartialOutput(k)])
                 \o <<[kind |-> "error", val |-> <<exc>>, pass |-> pass]>>

C10_Witness ==
    /\ pc = "done"
    /\ pass = 2
    /\ exc = "OSError"
    /\ out[Len(out) - 1].kind = "header"
    /\ out[Len(out)].kind = "error"

====
